---- MODULE Spec2Model ----
(***************************************************************************)
(* Model of the ESP32FileManager serial protocol engine                    *)
(* (src/src/ESP32FileManager.h): the command dispatcher handleFileManager, *)
(* the path parser getPath and the chunked upload loop _handlePutData,     *)
(* together with the two collaborators they talk to: the serial transport  *)
(* (a FIFO of bytes) and the SD_MMC storage (a map from paths to entries). *)
(*                                                                         *)
(* Bytes are one-character strings.  A byte string is kept run-length      *)
(* encoded (a sequence of runs [b |-> byte, n |-> count], no empty run, no *)
(* two neighbouring runs of the same byte), so that two byte strings are   *)
(* equal exactly when their encodings are equal and a 4096-byte chunk      *)
(* costs one run.  Command lines are expanded to plain sequences of        *)
(* characters before they are parsed.                                      *)
(***************************************************************************)
EXTENDS Integers, Sequences, FiniteSets, TLC

\* ------------------------------------------------------------------------
\* Program constants
\* ------------------------------------------------------------------------
PUT_CHUNK == 4096
PUT_TIMEOUT_MS == 10000
KEEPALIVE_MS == 200
GET_BUF == 1024
\* the buffer of the blocking PUTFILE, src/ESP32FileManager.h
BLK_BUF == 1024

\* ------------------------------------------------------------------------
\* Bounds of the exploration
\* ------------------------------------------------------------------------
\* the client puts at most MaxLines command lines on the wire
MaxLines == 2
\* the client puts at most MaxData arrivals of raw data on the wire
MaxData == 2
\* the largest upload size the client declares is MaxChunks full chunks plus one byte
MaxChunks == 2
\* at most MaxIdle consecutive passes of the receive loop find no byte to read
MaxIdle == 2
\* the longest line handed to the path parser on its own
MaxLen == 4

Min(a, b) == IF a < b THEN a ELSE b
Max(a, b) == IF a > b THEN a ELSE b

\* Time.  The code keeps two readings of millis(), _putLastData and
\* _lastKeepAlive, and only ever uses them as millis() - reading: the time that
\* passed since the reading was taken (in unsigned long arithmetic this is the
\* true difference, whether or not the clock wrapped in between).  The model
\* keeps those two differences, as timers: taking a reading resets the timer,
\* the passing of d ms adds d to it.  A timer stops counting at cap, which is
\* above or at the one threshold the timer is compared with.
Elapsed(timer, d, cap) == Min(timer + d, cap)

\* ------------------------------------------------------------------------
\* Run-length encoded byte strings
\* ------------------------------------------------------------------------
RRep(b, n) == IF n <= 0 THEN << >> ELSE << [b |-> b, n |-> n] >>

RECURSIVE RLen(_)
RLen(r) == IF r = << >> THEN 0 ELSE Head(r).n + RLen(Tail(r))

RCat(a, b) ==
  IF a = << >> THEN b
  ELSE IF b = << >> THEN a
  ELSE IF a[Len(a)].b = b[1].b
       THEN SubSeq(a, 1, Len(a) - 1)
            \o << [b |-> b[1].b, n |-> a[Len(a)].n + b[1].n] >>
            \o Tail(b)
       ELSE a \o b

\* the first k bytes of r (all of r when it is shorter)
RECURSIVE RTake(_, _)
RTake(r, k) ==
  IF k <= 0 \/ r = << >> THEN << >>
  ELSE IF Head(r).n >= k THEN << [b |-> Head(r).b, n |-> k] >>
  ELSE << Head(r) >> \o RTake(Tail(r), k - Head(r).n)

\* r without its first k bytes
RECURSIVE RDrop(_, _)
RDrop(r, k) ==
  IF k <= 0 \/ r = << >> THEN r
  ELSE IF Head(r).n > k THEN << [b |-> Head(r).b, n |-> Head(r).n - k] >> \o Tail(r)
  ELSE RDrop(Tail(r), k - Head(r).n)

\* number of bytes before the first occurrence of byte c, or -1
RECURSIVE RIndexOf(_, _)
RIndexOf(r, c) ==
  IF r = << >> THEN -1
  ELSE IF Head(r).b = c THEN 0
  ELSE LET i == RIndexOf(Tail(r), c) IN IF i = -1 THEN -1 ELSE Head(r).n + i

RECURSIVE Expand(_)
Expand(r) ==
  IF r = << >> THEN << >>
  ELSE LET h == Head(r).b IN [i \in 1..Head(r).n |-> h] \o Expand(Tail(r))

RECURSIVE EncodeRuns(_)
EncodeRuns(s) == IF s = << >> THEN << >> ELSE RCat(RRep(Head(s), 1), EncodeRuns(Tail(s)))

\* the encoding of a plain sequence of bytes
Encode(s) ==
  IF \E i \in 1..(Len(s) - 1) : s[i] = s[i + 1]
  THEN EncodeRuns(s)
  ELSE [i \in 1..Len(s) |-> [b |-> s[i], n |-> 1]]

\* ------------------------------------------------------------------------
\* Arduino String operations, on sequences of characters (0-based indices
\* as in the source, -1 for "not found")
\* ------------------------------------------------------------------------
\* fromIndex is unsigned: a negative argument is past every length
RECURSIVE indexOf(_, _, _)
indexOf(s, c, from) ==
  IF from < 0 \/ from >= Len(s) THEN -1
  ELSE IF s[from + 1] = c THEN from
  ELSE indexOf(s, c, from + 1)

RECURSIVE lastIndexOfFrom(_, _, _)
lastIndexOfFrom(s, c, from) ==
  IF from < 0 THEN -1
  ELSE IF s[from + 1] = c THEN from
  ELSE lastIndexOfFrom(s, c, from - 1)

lastIndexOf(s, c) == lastIndexOfFrom(s, c, Len(s) - 1)

\* String::substring(left, right): the arguments are unsigned, so a negative
\* one is past every length; indices swapped when left > right, an empty
\* string when left is past the end, right clipped to the length
substring(s, left, right) ==
  LET l == IF left < 0 THEN Len(s) + 1 ELSE left
      r == IF right < 0 THEN Len(s) + 1 ELSE right
      lo == Min(l, r)
      hi == Min(Max(l, r), Len(s))
  IN IF lo >= Len(s) THEN << >> ELSE SubSeq(s, lo + 1, hi)

substringFrom(s, left) == substring(s, left, Len(s))

startsWith(s, p) == Len(s) >= Len(p) /\ SubSeq(s, 1, Len(p)) = p

IsSpace(c) == c \in {" ", "\t", "\n", "\r"}

RECURSIVE TrimLeft(_)
TrimLeft(s) == IF s # << >> /\ IsSpace(Head(s)) THEN TrimLeft(Tail(s)) ELSE s

RECURSIVE TrimRight(_)
TrimRight(s) ==
  IF s # << >> /\ IsSpace(s[Len(s)]) THEN TrimRight(SubSeq(s, 1, Len(s) - 1)) ELSE s

trim(s) == TrimRight(TrimLeft(s))

\* trim() on an encoded string: white space goes run by run
RECURSIVE RTrimLeft(_)
RTrimLeft(r) == IF r # << >> /\ IsSpace(Head(r).b) THEN RTrimLeft(Tail(r)) ELSE r

RECURSIVE RTrimRight(_)
RTrimRight(r) ==
  IF r # << >> /\ IsSpace(r[Len(r)].b) THEN RTrimRight(SubSeq(r, 1, Len(r) - 1)) ELSE r

RTrim(r) == RTrimRight(RTrimLeft(r))

Digits == <<"0", "1", "2", "3", "4", "5", "6", "7", "8", "9">>
IsDigit(c) == \E d \in 1..10 : Digits[d] = c
DigitVal(c) == (CHOOSE d \in 1..10 : Digits[d] = c) - 1

\* the value of the leading run of digits of s, continuing from acc
RECURSIVE DigitsValue(_, _)
DigitsValue(s, acc) ==
  IF s # << >> /\ IsDigit(Head(s))
  THEN DigitsValue(Tail(s), acc * 10 + DigitVal(Head(s)))
  ELSE acc

\* String::toInt() is atol(): leading white space, an optional sign, then
\* digits up to the first other character; 0 when there is no digit
toInt(s) ==
  LET t == TrimLeft(s)
  IN IF t # << >> /\ Head(t) = "-" THEN 0 - DigitsValue(Tail(t), 0)
     ELSE IF t # << >> /\ Head(t) = "+" THEN DigitsValue(Tail(t), 0)
     ELSE DigitsValue(t, 0)

\* variant: a path whose closing quote is missing is taken to be empty
getPathMut(c, start) ==
  LET q1 == indexOf(c, "\"", start)
  IN IF q1 = -1 THEN substringFrom(c, start)
     ELSE LET q2raw == indexOf(c, "\"", q1 + 1)
          IN IF q2raw = -1 THEN << >> ELSE substring(c, q1 + 1, q2raw)

\* the path parser of the dispatcher
getPath(c, start) ==
  LET q1 == indexOf(c, "\"", start)
  IN IF q1 = -1 THEN substringFrom(c, start)
     ELSE LET q2raw == indexOf(c, "\"", q1 + 1)
              q2 == IF q2raw = -1 THEN Len(c) ELSE q2raw
          IN substring(c, q1 + 1, q2)


\* ------------------------------------------------------------------------
\* Command keywords and the lines the client of this exploration may send
\* ------------------------------------------------------------------------
KW_STORAGE == <<"S", "T", "O", "R", "A", "G", "E">>
KW_LIST == <<"L", "I", "S", "T", " ">>
KW_CREATE_DIR == <<"C", "R", "E", "A", "T", "E", "_", "D", "I", "R", " ">>
KW_PUTFILE == <<"P", "U", "T", "F", "I", "L", "E", " ">>
KW_GETSIZE == <<"G", "E", "T", "S", "I", "Z", "E", " ">>
KW_GETDATA == <<"G", "E", "T", "D", "A", "T", "A", " ">>
KW_DELETE == <<"D", "E", "L", "E", "T", "E", " ">>
KW_REMOVE_DIR == <<"R", "E", "M", "O", "V", "E", "_", "D", "I", "R", " ">>
KW_RENAME == <<"R", "E", "N", "A", "M", "E", " ">>

PathRoot == <<"/">>
PathF == <<"/", "f">>
PathG == <<"/", "g">>
PathD == <<"/", "d">>

LineStorage == <<"S", "T", "O", "R", "A", "G", "E">>
LineList == <<"L", "I", "S", "T", " ", "\"", "/", "d", "\"">>
LineCreateDir == <<"C", "R", "E", "A", "T", "E", "_", "D", "I", "R", " ", "\"", "/", "d", "\"">>
LinePutNoSize == <<"P", "U", "T", "F", "I", "L", "E", " ", "\"", "/", "f", "\"">>
LinePutHead == <<"P", "U", "T", "F", "I", "L", "E", " ", "\"", "/", "f", "\"", " ">>
LineGetSize == <<"G", "E", "T", "S", "I", "Z", "E", " ", "\"", "/", "f", "\"">>
LineGetData == <<"G", "E", "T", "D", "A", "T", "A", " ", "\"", "/", "f", "\"">>
LineDelete == <<"D", "E", "L", "E", "T", "E", " ", "\"", "/", "f", "\"">>
LineRemoveDir == <<"R", "E", "M", "O", "V", "E", "_", "D", "I", "R", " ", "\"", "/", "d", "\"">>
LineRename == <<"R", "E", "N", "A", "M", "E", " ", "\"", "/", "f", "\"", " ", "\"", "/", "g", "\"">>
LineGetDataRoot == <<"G", "E", "T", "D", "A", "T", "A", " ", "\"", "/", "\"">>
LineGetDataMissing == <<"G", "E", "T", "D", "A", "T", "A", " ", "\"", "/", "g", "\"">>
LineListBare == <<"L", "I", "S", "T", " ", "/", "d">>
LineCreateDirBare == <<"C", "R", "E", "A", "T", "E", "_", "D", "I", "R", " ", "/", "d">>
LineGetSizeBare == <<"G", "E", "T", "S", "I", "Z", "E", " ", "/", "f">>
LineGetDataBare == <<"G", "E", "T", "D", "A", "T", "A", " ", "/", "f">>
LineDeleteBare == <<"D", "E", "L", "E", "T", "E", " ", "/", "f">>
LineRemoveDirBare == <<"R", "E", "M", "O", "V", "E", "_", "D", "I", "R", " ", "/", "d">>
\* PUTFILE lines without a size: a bare path, and a quoted path with a blank
LinePutBareNoSize == <<"P", "U", "T", "F", "I", "L", "E", " ", "/", "f">>
LinePutSpacedNoSize == <<"P", "U", "T", "F", "I", "L", "E", " ", "\"", "/", "f", " ", "g", "\"">>
LinePutBareHead == <<"P", "U", "T", "F", "I", "L", "E", " ", "/", "f", " ">>
LineRenameOpen == <<"R", "E", "N", "A", "M", "E", " ", "\"", "/", "f", "\"", " ", "\"", "/", "g">>
LineRenameBare == <<"R", "E", "N", "A", "M", "E", " ", "/", "f", " ", "/", "g">>
LineRenameRel == <<"R", "E", "N", "A", "M", "E", " ", "\"", "f", "\"", " ", "\"", "g", "\"">>
LineBogus == <<"B", "O", "G", "U", "S">>

\* the client's decimal rendering of a size
RECURSIVE ToDec(_)
ToDec(n) == IF n < 10 THEN << Digits[n + 1] >> ELSE ToDec(n \div 10) \o << Digits[(n % 10) + 1] >>

\* the sizes the client declares: none, whole chunks, whole chunks plus one byte
UploadSizes ==
  {0} \cup {k * PUT_CHUNK : k \in 1..MaxChunks}
      \cup {(MaxChunks - 1) * PUT_CHUNK + 1}

LinePut(size) == LinePutHead \o ToDec(size)
LinePutBare(size) == LinePutBareHead \o ToDec(size)
\* a negative size, and a size that is no number
LinePutNeg == LinePutHead \o << "-", "1" >>
LinePutText == LinePutHead \o << "x" >>

ClientLines ==
  {LineStorage, LineList, LineCreateDir, LinePutNoSize, LineGetSize, LineGetData,
   LineDelete, LineRemoveDir, LineRename, LineBogus}
  \cup {LinePut(sz) : sz \in UploadSizes}

\* command lines off the documented forms
EdgeLines ==
  {LineRename, LineRenameOpen, LineRenameBare, LineRenameRel,
   LineGetData, LineGetDataRoot, LineGetDataMissing,
   LineList, LineCreateDir, LineGetSize, LineDelete, LineRemoveDir, LinePut(PUT_CHUNK),
   LineListBare, LineCreateDirBare, LineGetSizeBare, LineGetDataBare, LineDeleteBare,
   LineRemoveDirBare, LinePutBare(PUT_CHUNK), LinePutNeg, LinePutText,
   LinePutNoSize, LinePutBareNoSize, LinePutSpacedNoSize}

\* the lengths of the raw data arrivals
ArrivalSizes == {1, PUT_CHUNK - 1, PUT_CHUNK + 1}

\* the time one pass of the receive loop may take: delay(1) or longer
Delays == {1, PUT_TIMEOUT_MS}

\* the hooks a sketch may register; 0 is nullptr
Hooks == {0, 1}

\* for the cadence of the hook: two hooks, passes that take up to 200 ms,
\* and uploads of whole chunks
KaHooks == {0, 1, 2}
KaDelays == {1, KEEPALIVE_MS - 1, KEEPALIVE_MS}
KaLines == {LinePut(k * PUT_CHUNK) : k \in 1..MaxChunks}


\* ------------------------------------------------------------------------
\* State
\* ------------------------------------------------------------------------
VARIABLES
  rx,                 \* Serial: bytes received and not yet read
  out,                \* Serial: what was printed since the last command line was read
  fs,                 \* SD_MMC: path -> [kind, data]
  handles,            \* SD_MMC: number of open handles the upload owns
  pc,                 \* "idle": in loop(), between calls; "put": inside _handlePutData;
                      \*   "blk": inside the read loop of the blocking PUTFILE;
                      \*   "crashed": halted after a write past the end of _putBuf
  putActive,          \* _putActive
  putFile,            \* _putFile: [open, path]
  putSize,            \* _putSize
  putReceived,        \* _putReceived
  putChunkPos,        \* _putChunkPos
  putLastData,        \* millis() - _putLastData: ms since the reading it holds
  putBuf,             \* _putBuf, all PUT_CHUNK bytes of it
  keepAliveCallback,  \* _keepAliveCallback
  lastKeepAlive,      \* millis() - _lastKeepAlive: ms since the reading it holds
  cmd,                \* history: the keyword of the command line read last
  lineRead,           \* history: that line as the dispatcher saw it, when it
                      \*   has a keyword
  consumed,           \* history: the bytes the current or last upload read from Serial
  wlog,               \* history: the writes of the current or last upload, [req, done]
  ka,                 \* history, since the last command line: the hook invoked
                      \*   last, the values isTransferActive() had when the
                      \*   hook was invoked ("hook") and when bytes were read
                      \*   ("read"), and the time since the invocation before
                      \*   (or the start) at the last invocation, -1 before it
  upload,             \* history: what became of the upload that command started:
                      \*   "none", "active", "ok" or "timeout"
  prev,               \* history: cmd and upload of the command line read before
  nLines, nData, idle, \* the exploration's counters
  sentPut,            \* the client: the line it sent last was a PUTFILE
  probe               \* the path parser on its own: [line, start, path, done]

vars == <<rx, out, fs, handles, pc, putActive, putFile, putSize, putReceived,
          putChunkPos, putLastData, putBuf, keepAliveCallback, lastKeepAlive,
          cmd, lineRead, consumed, wlog, ka, upload, prev, nLines, nData, idle,
          sentPut, probe>>

engine == <<putActive, putFile, putSize, putReceived, putChunkPos, putLastData,
            putBuf, lastKeepAlive>>
history == <<consumed, wlog, upload, prev>>

DirEntry == [kind |-> "dir", data |-> << >>]
FileEntry(d) == [kind |-> "file", data |-> d]
ClosedFile == [open |-> FALSE, path |-> << >>]
NoProbe == [line |-> << >>, start |-> 0, path |-> << >>, done |-> TRUE]
NoKa == [hook |-> 0, seen |-> {}, age |-> -1]

Exists(f, p) == p \in DOMAIN f
IsFile(f, p) == Exists(f, p) /\ f[p].kind = "file"
IsDir(f, p) == Exists(f, p) /\ f[p].kind = "dir"
FsPut(f, p, e) == [q \in DOMAIN f \cup {p} |-> IF q = p THEN e ELSE f[q]]
FsDel(f, p) == [q \in DOMAIN f \ {p} |-> f[q]]

\* one printed line: its text, its number if it has one, and the value
\* isTransferActive() had when it was printed
Ln(t, n, act) == [t |-> t, n |-> n, raw |-> << >>, act |-> act]
\* raw bytes written to Serial
Raw(d, act) == [t |-> "", n |-> RLen(d), raw |-> d, act |-> act]

\* the engine, the transport and the card after setup()
Fresh ==
  /\ rx = << >>
  /\ out = << >>
  /\ fs = (PathRoot :> DirEntry) @@ (PathF :> FileEntry(RRep("z", GET_BUF + 1)))
  /\ handles = 0
  /\ pc = "idle"
  /\ putActive = FALSE
  /\ putFile = ClosedFile
  /\ putSize = 0
  /\ putReceived = 0
  /\ putChunkPos = 0
  /\ putLastData = 0
  /\ putBuf = RRep("0", PUT_CHUNK)
  /\ keepAliveCallback = 0
  /\ lastKeepAlive = 0
  /\ cmd = ""
  /\ lineRead = << >>
  /\ consumed = << >>
  /\ wlog = << >>
  /\ ka = NoKa
  /\ upload = "none"
  /\ prev = [cmd |-> "", upload |-> "none"]
  /\ nLines = 0
  /\ nData = 0
  /\ idle = 0
  /\ sentPut = FALSE

Init == Fresh /\ probe = NoProbe

\* ------------------------------------------------------------------------
\* handleFileManager: reading and recognising the command line
\* ------------------------------------------------------------------------
\* Serial.readStringUntil('\n'): up to the line feed, which is dropped, or,
\* when none arrives before the stream times out, everything there is
NlPos == RIndexOf(rx, "\n")
LineRaw == IF NlPos = -1 THEN rx ELSE RTake(rx, NlPos)
RxRest == IF NlPos = -1 THEN << >> ELSE RDrop(rx, NlPos + 1)
CmdLine == Expand(RTrim(LineRaw))
\* as much of the line as the else-if chain looks at: no keyword is longer
\* than 11 characters
CmdHead == Expand(RTake(RTrim(LineRaw), 12))

\* the else-if chain of the dispatcher
Keyword(c) ==
  IF c = KW_STORAGE THEN "STORAGE"
  ELSE IF startsWith(c, KW_LIST) THEN "LIST"
  ELSE IF startsWith(c, KW_CREATE_DIR) THEN "CREATE_DIR"
  ELSE IF startsWith(c, KW_PUTFILE) THEN "PUTFILE"
  ELSE IF startsWith(c, KW_GETSIZE) THEN "GETSIZE"
  ELSE IF startsWith(c, KW_GETDATA) THEN "GETDATA"
  ELSE IF startsWith(c, KW_DELETE) THEN "DELETE"
  ELSE IF startsWith(c, KW_REMOVE_DIR) THEN "REMOVE_DIR"
  ELSE IF startsWith(c, KW_RENAME) THEN "RENAME"
  ELSE ""

\* a call of handleFileManager that gets as far as reading the line c and
\* takes the branch of keyword k: no upload in progress, and something to read
Reads(c, k) ==
  /\ pc = "idle"
  /\ ~putActive
  /\ rx # << >>
  /\ rx' = RxRest
  /\ cmd' = k
  /\ lineRead' = (IF k = "" THEN << >> ELSE c)
  /\ prev' = [cmd |-> cmd, upload |-> upload]
  /\ UNCHANGED probe

Done(act) == Ln("DONE", 0, act)

\* an empty line, or a line no branch of the chain recognises: no output
IgnoreLine(c) ==
  /\ Reads(c, "")
  /\ out' = << >>
  /\ ka' = NoKa
  /\ upload' = "none"
  /\ UNCHANGED <<fs, handles, pc, engine, keepAliveCallback, consumed, wlog,
                 nLines, nData, idle, sentPut>>

RECURSIVE UsedBytes(_, _)
UsedBytes(f, ps) ==
  IF ps = {} THEN 0
  ELSE LET p == CHOOSE q \in ps : TRUE
       IN RLen(f[p].data) + UsedBytes(f, ps \ {p})

CmdStorage(c) ==
  /\ Reads(c, "STORAGE")
  /\ out' = << Ln("TOTAL:FREE", UsedBytes(fs, DOMAIN fs), putActive), Done(putActive) >>
  /\ ka' = NoKa
  /\ upload' = "none"
  /\ UNCHANGED <<fs, handles, pc, engine, keepAliveCallback, consumed, wlog,
                 nLines, nData, idle, sentPut>>

\* the children of a directory, as openNextFile() hands them out
ChildPrefix(dir) == IF dir = PathRoot THEN dir ELSE dir \o << "/" >>
IsChild(q, dir) ==
  /\ q # dir
  /\ startsWith(q, ChildPrefix(dir))
  /\ indexOf(q, "/", Len(ChildPrefix(dir))) = -1

\* the display name listDir derives from a child's full name
BaseName(fullName, dirname) ==
  LET stripped == IF dirname # PathRoot /\ startsWith(fullName, dirname)
                  THEN substringFrom(fullName, Len(dirname))
                  ELSE fullName
  IN IF startsWith(stripped, << "/" >>) THEN substringFrom(stripped, 1) ELSE stripped

RECURSIVE ListLines(_, _, _, _)
ListLines(f, dir, ps, act) ==
  IF ps = {} THEN << >>
  ELSE LET p == CHOOSE q \in ps : \A r \in ps : Len(q) <= Len(r)
           line == IF f[p].kind = "dir"
                   THEN [t |-> "DIR", n |-> 0, raw |-> Encode(BaseName(p, dir)), act |-> act]
                   ELSE [t |-> "FILE", n |-> RLen(f[p].data),
                         raw |-> Encode(BaseName(p, dir)), act |-> act]
       IN << line >> \o ListLines(f, dir, ps \ {p}, act)

\* variant: the error path of listDir prints the sentinel itself
listDirMut(f, dirname, act) ==
  IF ~IsDir(f, dirname) THEN << Ln("ERROR: Invalid directory", 0, act), Done(act) >>
  ELSE ListLines(f, dirname, {q \in DOMAIN f : IsChild(q, dirname)}, act)

listDir(f, dirname, act) ==
  IF ~IsDir(f, dirname) THEN << Ln("ERROR: Invalid directory", 0, act) >>
  ELSE ListLines(f, dirname, {q \in DOMAIN f : IsChild(q, dirname)}, act)

CmdList(c) ==
  /\ Reads(c, "LIST")
  /\ out' = listDir(fs, getPath(c, 5), putActive) \o << Done(putActive) >>
  /\ ka' = NoKa
  /\ upload' = "none"
  /\ UNCHANGED <<fs, handles, pc, engine, keepAliveCallback, consumed, wlog,
                 nLines, nData, idle, sentPut>>

\* fs.mkdir: creates the directory when nothing has that name
createDir(f, path) ==
  IF path # << >> /\ ~Exists(f, path) THEN FsPut(f, path, DirEntry) ELSE f

CmdCreateDir(c) ==
  /\ Reads(c, "CREATE_DIR")
  /\ fs' = createDir(fs, getPath(c, 11))
  /\ out' = << Ln("DIR created", 0, putActive), Done(putActive) >>
  /\ ka' = NoKa
  /\ upload' = "none"
  /\ UNCHANGED <<handles, pc, engine, keepAliveCallback, consumed, wlog,
                 nLines, nData, idle, sentPut>>

CmdGetSize(c) ==
  /\ Reads(c, "GETSIZE")
  /\ LET path == getPath(c, 8)
     IN out' = IF ~IsFile(fs, path)
               THEN << Ln("ERROR", 0, putActive), Done(putActive) >>
               ELSE << Ln("SIZE:", RLen(fs[path].data), putActive), Done(putActive) >>
  /\ ka' = NoKa
  /\ upload' = "none"
  /\ UNCHANGED <<fs, handles, pc, engine, keepAliveCallback, consumed, wlog,
                 nLines, nData, idle, sentPut>>

\* the read loop of GETDATA: what it writes to Serial from position pos on
RECURSIVE GetDataLoop(_, _)
GetDataLoop(data, pos) ==
  IF RLen(data) - pos > 0
  THEN LET len == Min(GET_BUF, RLen(data) - pos)
       IN RCat(RTake(RDrop(data, pos), len), GetDataLoop(data, pos + len))
  ELSE << >>

\* variant: one read of the file instead of a loop
GetDataBytesMut(data) == RTake(data, GET_BUF)

\* everything GETDATA writes to Serial for a file holding data
GetDataBytes(data) == GetDataLoop(data, 0)

\* the number of passes of that loop
GetDataPasses(data) == (RLen(data) + GET_BUF - 1) \div GET_BUF

\* slow: every pass of the read loop takes 200 ms or more, so the hook is due in each
CmdGetData(c, slow) ==
  /\ LET path == getPath(c, 8)
     IN IF ~IsFile(fs, path)
        THEN /\ ~slow
             /\ Reads(c, "GETDATA")
             /\ out' = << >>
             /\ ka' = NoKa
        ELSE LET passes == GetDataPasses(fs[path].data)
                 fires == slow /\ keepAliveCallback # 0 /\ passes > 0
             IN /\ Reads(c, "GETDATA")
                /\ out' = << Raw(GetDataBytes(fs[path].data), putActive) >>
                /\ ka' = IF fires
                         THEN [hook |-> keepAliveCallback,
                               seen |-> {<<"hook", putActive>>},
                               age |-> KEEPALIVE_MS]
                         ELSE NoKa
  /\ upload' = "none"
  /\ UNCHANGED <<fs, handles, pc, engine, keepAliveCallback, consumed, wlog,
                 nLines, nData, idle, sentPut>>

CmdDelete(c) ==
  /\ Reads(c, "DELETE")
  /\ LET path == getPath(c, 7)
     IN IF IsFile(fs, path)
        THEN /\ fs' = FsDel(fs, path)
             /\ out' = << Ln("DELETED", 0, putActive), Done(putActive) >>
        ELSE /\ fs' = fs
             /\ out' = << Ln("ERROR", 0, putActive), Done(putActive) >>
  /\ ka' = NoKa
  /\ upload' = "none"
  /\ UNCHANGED <<handles, pc, engine, keepAliveCallback, consumed, wlog,
                 nLines, nData, idle, sentPut>>

\* fs.rmdir: removes an empty directory
removeDir(f, path) ==
  IF IsDir(f, path) /\ path # PathRoot /\ ~(\E q \in DOMAIN f : IsChild(q, path))
  THEN FsDel(f, path)
  ELSE f

CmdRemoveDir(c) ==
  /\ Reads(c, "REMOVE_DIR")
  /\ fs' = removeDir(fs, getPath(c, 11))
  /\ out' = << Ln("REMOVED", 0, putActive), Done(putActive) >>
  /\ ka' = NoKa
  /\ upload' = "none"
  /\ UNCHANGED <<handles, pc, engine, keepAliveCallback, consumed, wlog,
                 nLines, nData, idle, sentPut>>

\* SD_MMC.rename: moves an existing entry to a name nothing has yet
CanRename(f, from, to) == Exists(f, from) /\ from # PathRoot /\ ~Exists(f, to)

WithSlash(p) == IF startsWith(p, << "/" >>) THEN p ELSE << "/" >> \o p

\* variant: the closing quote of the second path is not looked for
RenameMalformedMut(q1, q2, q3, q4) == q1 = -1 \/ q2 = -1 \/ q3 = -1

\* one of the four quotes is missing
RenameMalformed(q1, q2, q3, q4) == q1 = -1 \/ q2 = -1 \/ q3 = -1 \/ q4 = -1

CmdRename(c) ==
  /\ Reads(c, "RENAME")
  /\ LET q1 == indexOf(c, "\"", 0)
         q2 == indexOf(c, "\"", q1 + 1)
         q3 == indexOf(c, "\"", q2 + 1)
         q4 == indexOf(c, "\"", q3 + 1)
     IN IF RenameMalformed(q1, q2, q3, q4)
        THEN /\ fs' = fs
             /\ out' = << Ln("ERROR", 0, putActive), Done(putActive) >>
        ELSE LET from == WithSlash(substring(c, q1 + 1, q2))
                 to == WithSlash(substring(c, q3 + 1, q4))
             IN IF CanRename(fs, from, to)
                THEN /\ fs' = FsDel(FsPut(fs, to, fs[from]), from)
                     /\ out' = << Ln("RENAMED", 0, putActive), Done(putActive) >>
                ELSE /\ fs' = fs
                     /\ out' = << Ln("ERROR", 0, putActive), Done(putActive) >>
  /\ ka' = NoKa
  /\ upload' = "none"
  /\ UNCHANGED <<handles, pc, engine, keepAliveCallback, consumed, wlog,
                 nLines, nData, idle, sentPut>>


\* ------------------------------------------------------------------------
\* PUTFILE: the start of an upload
\* ------------------------------------------------------------------------
\* SD_MMC.open(path, FILE_WRITE) can succeed: a name, and no directory has it
CanOpenWrite(f, path) == path # << >> /\ ~IsDir(f, path)

\* the command line carries no size argument after the path
PutMalformed(c) == lastIndexOf(c, " ") <= 8

PutSizeArg(c) == toInt(substringFrom(c, lastIndexOf(c, " ") + 1))

\* variant: the chunk position of the upload before is kept
StartChunkPosMut(chunkPos) == chunkPos

\* _putChunkPos = 0 at the start of an upload, whatever the last one left
StartChunkPos(chunkPos) == 0

\* opened: whether the card lets the open succeed this time
CmdPutFile(c, opened) ==
  /\ Reads(c, "PUTFILE")
  /\ ka' = NoKa
  /\ IF PutMalformed(c)
     THEN /\ ~opened
          /\ out' = << Ln("ERROR", 0, putActive), Done(putActive) >>
          /\ upload' = "none"
          /\ UNCHANGED <<fs, handles, pc, engine, consumed, wlog, idle>>
     ELSE LET path == getPath(c, 8)
          IN /\ putSize' = PutSizeArg(c)
             /\ IF ~(opened /\ CanOpenWrite(fs, path))
                THEN /\ putFile' = ClosedFile
                     /\ out' = << Ln("ERROR", 0, putActive), Done(putActive) >>
                     /\ upload' = "none"
                     /\ UNCHANGED <<fs, handles, pc, putActive, putReceived,
                                    putChunkPos, putLastData, putBuf,
                                    lastKeepAlive, consumed, wlog, idle>>
                ELSE /\ putFile' = [open |-> TRUE, path |-> path]
                     /\ fs' = FsPut(fs, path, FileEntry(<< >>))
                     /\ handles' = handles + 1
                     /\ putReceived' = 0
                     /\ putChunkPos' = StartChunkPos(putChunkPos)
                     /\ putLastData' = 0
                     /\ putActive' = TRUE
                     /\ out' = << Ln("READY", PUT_CHUNK, putActive') >>
                     /\ lastKeepAlive' = 0
                     /\ pc' = "put"
                     /\ consumed' = << >>
                     /\ wlog' = << >>
                     /\ upload' = "active"
                     /\ idle' = 0
                     /\ UNCHANGED putBuf
  /\ UNCHANGED <<keepAliveCallback, nLines, nData, sentPut>>

\* ------------------------------------------------------------------------
\* _handlePutData: one pass of the receive loop
\* ------------------------------------------------------------------------
\* variant: a chunk one byte short of PUT_CHUNK
ChunkWantMut(remaining) == IF remaining > PUT_CHUNK - 1 THEN PUT_CHUNK - 1 ELSE remaining

ChunkWant(remaining) == IF remaining > PUT_CHUNK THEN PUT_CHUNK ELSE remaining

\* how many bytes the pass asks Serial.readBytes for
ToRead(avail, chunkWant, chunkPos) ==
  IF avail > 0
  THEN (IF avail > chunkWant - chunkPos THEN chunkWant - chunkPos ELSE avail)
  ELSE 0

\* Serial.readBytes(buffer, length): length is a size_t, so a negative
\* argument asks for more than Serial can hold and everything there is read
ReadBytes(avail, toRead) == IF toRead < 0 THEN avail ELSE Min(avail, toRead)

\* variant: the bytes read are dropped
StoreMut(buf, pos, data) == buf

\* _putBuf after data was stored at pos
Store(buf, pos, data) ==
  RTake(RCat(RCat(RTake(buf, pos), data), RDrop(buf, pos + RLen(data))), PUT_CHUNK)

\* variant: the hook is due one millisecond early
KeepAliveDueMut(callback, sinceKeepAlive) ==
  callback # 0 /\ sinceKeepAlive >= KEEPALIVE_MS - 1

\* sinceKeepAlive: millis() - _lastKeepAlive as the pass reads it
KeepAliveDue(callback, sinceKeepAlive) == callback # 0 /\ sinceKeepAlive >= KEEPALIVE_MS

\* variant: whatever has arrived is written at once
ChunkFullMut(chunkPos, chunkWant) == chunkPos > 0 \/ chunkPos >= chunkWant

ChunkFull(chunkPos, chunkWant) == chunkPos >= chunkWant

\* the length the pass hands to _putFile.write
WriteLen(chunkPos) == chunkPos

TransferDone(received, size) == received >= size

\* variant: the upload is dropped already at the threshold
TimedOutMut(sinceLastData) == sinceLastData >= PUT_TIMEOUT_MS

\* sinceLastData: millis() - _putLastData as the pass reads it
TimedOut(sinceLastData) == sinceLastData > PUT_TIMEOUT_MS

\* what a write of n bytes may store: all of them or, when the card fails or
\* is full, none
WriteOutcomes(n) == {n, 0}

\* variant: _putActive is cleared before the closing lines are printed
ActiveWhilePrintingMut(active) == FALSE

\* the value _putActive has while the closing lines are printed
ActiveWhilePrinting(active) == active

\* the two lines that end an upload
Closing(t, act) == << Ln(t, 0, act), Done(act) >>

\* variant: the handle is never closed
CloseMut(n) == n

\* _putFile.close()
Close(n) == n - 1

\* variant: the timeout branch forgets the handle
CloseOnTimeoutMut(n) == n

\* what the branch taken on a timeout leaves of the open handle
CloseOnTimeout(n) == Close(n)

PutPass(d) ==
  /\ putActive
  /\ pc = "put"
  /\ LET remaining == putSize - putReceived
         chunkWant == ChunkWant(remaining)
         avail == RLen(rx)
         toRead == ToRead(avail, chunkWant, putChunkPos)
         got == IF avail > 0 THEN ReadBytes(avail, toRead) ELSE 0
         data == RTake(rx, got)
         pos1 == IF got > 0 THEN putChunkPos + got ELSE putChunkPos
         sinceData == Elapsed(IF got > 0 THEN 0 ELSE putLastData, d, PUT_TIMEOUT_MS + 1)
         sinceKa == Elapsed(lastKeepAlive, d, KEEPALIVE_MS)
         due == KeepAliveDue(keepAliveCallback, sinceKa)
         flag == ActiveWhilePrinting(putActive)
     IN /\ got = 0 => idle < MaxIdle
        /\ idle' = IF got > 0 THEN 0 ELSE idle + 1
        /\ rx' = RDrop(rx, got)
        /\ consumed' = RCat(consumed, data)
        /\ putBuf' = IF got > 0 THEN Store(putBuf, putChunkPos, data) ELSE putBuf
        /\ putLastData' = sinceData
        /\ lastKeepAlive' = IF due THEN 0 ELSE sinceKa
        /\ ka' = [hook |-> IF due THEN keepAliveCallback ELSE ka.hook,
                  seen |-> ka.seen
                           \cup (IF got > 0 THEN {<<"read", putActive>>} ELSE {})
                           \cup (IF due THEN {<<"hook", putActive>>} ELSE {}),
                  age |-> IF due THEN sinceKa ELSE ka.age]
        /\ IF ChunkFull(pos1, chunkWant)
           THEN \E w \in WriteOutcomes(WriteLen(pos1)) :
                  LET received1 == putReceived + pos1
                  IN /\ fs' = [fs EXCEPT ![putFile.path].data =
                                 RCat(@, RTake(putBuf', w))]
                     /\ wlog' = Append(wlog, [req |-> WriteLen(pos1), done |-> w])
                     /\ putReceived' = received1
                     /\ putChunkPos' = 0
                     /\ IF TransferDone(received1, putSize)
                        THEN /\ putFile' = ClosedFile
                             /\ handles' = Close(handles)
                             /\ out' = out \o Closing("OK", flag)
                             /\ putActive' = FALSE
                             /\ pc' = "idle"
                             /\ upload' = "ok"
                        ELSE /\ out' = Append(out, Ln("NEXT", 0, putActive))
                             /\ pc' = "put"
                             /\ UNCHANGED <<putFile, handles, putActive, upload>>
           ELSE IF TimedOut(sinceData)
                THEN /\ putFile' = ClosedFile
                     /\ handles' = CloseOnTimeout(handles)
                     /\ out' = out \o Closing("ERROR", flag)
                     /\ putActive' = FALSE
                     /\ pc' = "idle"
                     /\ putChunkPos' = pos1
                     /\ upload' = "timeout"
                     /\ UNCHANGED <<fs, wlog, putReceived>>
                ELSE /\ pc' = "put"
                     /\ putChunkPos' = pos1
                     /\ UNCHANGED <<fs, wlog, putReceived, putFile, handles,
                                    putActive, out, upload>>
  /\ UNCHANGED <<putSize, keepAliveCallback, cmd, lineRead, prev, nLines, nData,
                 sentPut, probe>>

\* A pass that reads more than _putBuf has room for writes past its end, over
\* the members that follow it (_keepAliveCallback, _lastKeepAlive): the
\* behaviour is undefined.  The build may go on as if nothing had happened,
\* which PutPass covers with the bytes that fit, or halt, as here.
PutOverflow ==
  /\ putActive
  /\ pc = "put"
  /\ LET chunkWant == ChunkWant(putSize - putReceived)
         avail == RLen(rx)
         toRead == ToRead(avail, chunkWant, putChunkPos)
         got == IF avail > 0 THEN ReadBytes(avail, toRead) ELSE 0
     IN /\ putChunkPos + got > PUT_CHUNK
        /\ rx' = RDrop(rx, got)
        /\ consumed' = RCat(consumed, RTake(rx, got))
  /\ pc' = "crashed"
  /\ UNCHANGED <<out, fs, handles, engine, keepAliveCallback, cmd, lineRead,
                 wlog, ka, upload, prev, nLines, nData, idle, sentPut, probe>>

\* ------------------------------------------------------------------------
\* handleFileManager, called from loop() while no upload is in progress
\* ------------------------------------------------------------------------
handleFileManager ==
  /\ pc = "idle"
  /\ ~putActive
  /\ rx # << >>
  /\ LET c == CmdLine
         k == Keyword(CmdHead)
     IN \/ k = "" /\ IgnoreLine(c)
        \/ k = "STORAGE" /\ CmdStorage(c)
        \/ k = "LIST" /\ CmdList(c)
        \/ k = "CREATE_DIR" /\ CmdCreateDir(c)
        \/ k = "PUTFILE" /\ \E opened \in BOOLEAN : CmdPutFile(c, opened)
        \/ k = "GETSIZE" /\ CmdGetSize(c)
        \/ k = "GETDATA" /\ \E slow \in BOOLEAN : CmdGetData(c, slow)
        \/ k = "DELETE" /\ CmdDelete(c)
        \/ k = "REMOVE_DIR" /\ CmdRemoveDir(c)
        \/ k = "RENAME" /\ CmdRename(c)

\* ------------------------------------------------------------------------
\* The client and the sketch
\* ------------------------------------------------------------------------
\* the lines as they go on the wire, each with its line feed
ClientWire ==
  {[bytes |-> Encode(l \o << "\n" >>), put |-> (Keyword(l) = "PUTFILE")] : l \in ClientLines}

EdgeWire ==
  {[bytes |-> Encode(l \o << "\n" >>), put |-> (Keyword(l) = "PUTFILE")] : l \in EdgeLines}

KaWire ==
  {[bytes |-> Encode(l \o << "\n" >>), put |-> (Keyword(l) = "PUTFILE")] : l \in KaLines}

\* The client keeps to one outstanding operation: it sends a command line
\* only when the engine has read every line sent before and is back in loop()
ClientSendLine(l) ==
  /\ nLines < MaxLines
  /\ pc = "idle"
  /\ RIndexOf(rx, "\n") = -1
  /\ sentPut' = l.put
  /\ rx' = RCat(rx, l.bytes)
  /\ nLines' = nLines + 1
  /\ UNCHANGED <<out, fs, handles, pc, engine, keepAliveCallback, cmd,
                 lineRead, history, ka, nData, idle, probe>>

\* n bytes of raw data arrive, while the PUTFILE line the client sent last is
\* unread or its upload is running; successive arrivals carry different bytes
ClientSendData(n) ==
  /\ nData < MaxData
  /\ sentPut
  /\ putActive \/ RIndexOf(rx, "\n") # -1
  /\ rx' = RCat(rx, RRep(IF nData % 2 = 0 THEN "a" ELSE "b", n))
  /\ nData' = nData + 1
  /\ UNCHANGED <<out, fs, handles, pc, engine, keepAliveCallback, cmd,
                 lineRead, history, ka, nLines, idle, sentPut, probe>>

\* the line a client that does not wait sends while an upload is active; it
\* sends this line at no other time
InterruptWire == {[bytes |-> Encode(LineStorage \o << "\n" >>), put |-> FALSE]}

\* a client that breaks the discipline: a command line in the middle of an upload
ClientInterrupt(l) ==
  /\ nLines < MaxLines
  /\ putActive
  /\ rx' = RCat(rx, l.bytes)
  /\ nLines' = nLines + 1
  /\ UNCHANGED <<out, fs, handles, pc, engine, keepAliveCallback, cmd,
                 lineRead, history, ka, nData, idle, sentPut, probe>>

\* the sketch registers a hook, in setup(): before the client sends anything
setKeepAliveCallback(callback) ==
  /\ pc = "idle"
  /\ nLines = 0
  /\ keepAliveCallback # callback
  /\ keepAliveCallback' = callback
  /\ UNCHANGED <<rx, out, fs, handles, pc, engine, cmd, lineRead, history, ka,
                 nLines, nData, idle, sentPut, probe>>


\* ------------------------------------------------------------------------
\* The system
\* ------------------------------------------------------------------------
Next ==
  \/ \E l \in ClientWire : ClientSendLine(l)
  \/ \E n \in ArrivalSizes : ClientSendData(n)
  \/ \E h \in Hooks : setKeepAliveCallback(h)
  \/ handleFileManager
  \/ \E d \in Delays : PutPass(d)

Spec == Init /\ [][Next]_vars

\* the same engine, with a client that sends the lines of EdgeLines
NextEdge ==
  \/ \E l \in EdgeWire : ClientSendLine(l)
  \/ \E l \in InterruptWire : ClientInterrupt(l)
  \/ PutOverflow
  \/ \E n \in ArrivalSizes : ClientSendData(n)
  \/ handleFileManager
  \/ \E d \in Delays : PutPass(d)

SpecEdge == Init /\ [][NextEdge]_vars

\* the same engine, with a sketch that registers one hook after another and
\* passes of the receive loop that take up to 200 ms
NextKa ==
  \/ \E l \in KaWire : ClientSendLine(l)
  \/ \E n \in ArrivalSizes : ClientSendData(n)
  \/ \E h \in KaHooks : setKeepAliveCallback(h)
  \/ handleFileManager
  \/ \E d \in KaDelays : PutPass(d)

SpecKa == Init /\ [][NextKa]_vars

\* the path parser on its own: every line of up to MaxLen characters out of
\* a double quote, a letter and a blank, with every offset up to MaxLen
PathChars == {"\"", "a", " "}
ProbeLines == UNION {[1..n -> PathChars] : n \in 0..MaxLen}

InitPath ==
  /\ Fresh
  /\ probe \in {[line |-> l, start |-> st, path |-> << >>, done |-> FALSE] :
                  l \in ProbeLines, st \in 0..MaxLen}

ParsePath ==
  /\ ~probe.done
  /\ probe' = [probe EXCEPT !.path = getPath(probe.line, probe.start), !.done = TRUE]
  /\ UNCHANGED <<rx, out, fs, handles, pc, engine, keepAliveCallback, cmd,
                 lineRead, history, ka, nLines, nData, idle, sentPut>>

NextPath == ParsePath

SpecPath == InitPath /\ [][NextPath]_vars

\* ------------------------------------------------------------------------
\* The blocking variant, src/ESP32FileManager.h: PUTFILE reads the whole
\* file inside one call of handleFileManager.  Its locals size, received and f
\* are held in putSize, putReceived and putFile.
\* ------------------------------------------------------------------------
\* the sizes the client of the blocking variant declares
BlkSizes == {0, 1, BLK_BUF, BLK_BUF + 1, 2 * BLK_BUF}
BlkLines == {LinePut(sz) : sz \in BlkSizes} \cup {LinePutNeg, LinePutNoSize, LineGetSize}
BlkWire ==
  {[bytes |-> Encode(l \o << "\n" >>), put |-> (Keyword(l) = "PUTFILE")] : l \in BlkLines}
BlkArrivals == {1, BLK_BUF - 1, BLK_BUF + 1}

\* received == size ? "OK" : "ERROR"
BlkVerdict(received, size) == IF received = size THEN "OK" ELSE "ERROR"

\* int want = min(1024, (int)(size - received))
BlkWant(size, received) == Min(BLK_BUF, size - received)

\* f.close() and the two closing lines, with `received` bytes taken
BlkFinish(received, size, h) ==
  /\ putFile' = ClosedFile
  /\ handles' = Close(h)
  /\ out' = out \o << Ln(BlkVerdict(received, size), 0, putActive), Done(putActive) >>
  /\ upload' = (IF BlkVerdict(received, size) = "OK" THEN "ok" ELSE "mismatch")
  /\ pc' = "idle"

CmdPutFileBlocking(c, opened) ==
  /\ Reads(c, "PUTFILE")
  /\ ka' = NoKa
  /\ IF PutMalformed(c)
     THEN /\ ~opened
          /\ out' = << Ln("ERROR", 0, putActive), Done(putActive) >>
          /\ upload' = "none"
          /\ UNCHANGED <<fs, handles, pc, engine, consumed, wlog>>
     ELSE LET path == getPath(c, 8)
          IN /\ putSize' = PutSizeArg(c)
             /\ IF ~(opened /\ CanOpenWrite(fs, path))
                THEN /\ putFile' = ClosedFile
                     /\ out' = << Ln("ERROR", 0, putActive), Done(putActive) >>
                     /\ upload' = "none"
                     /\ UNCHANGED <<fs, handles, pc, putReceived, consumed, wlog>>
                ELSE /\ fs' = FsPut(fs, path, FileEntry(<< >>))
                     /\ putReceived' = 0
                     /\ consumed' = << >>
                     /\ wlog' = << >>
                     /\ IF 0 < putSize'
                        THEN /\ putFile' = [open |-> TRUE, path |-> path]
                             /\ handles' = handles + 1
                             /\ out' = << >>
                             /\ upload' = "active"
                             /\ pc' = "blk"
                        ELSE /\ out' = << Ln(BlkVerdict(0, putSize'), 0, putActive),
                                         Done(putActive) >>
                             /\ putFile' = ClosedFile
                             /\ upload' = (IF BlkVerdict(0, putSize') = "OK"
                                           THEN "ok" ELSE "mismatch")
                             /\ UNCHANGED <<handles, pc>>
             /\ UNCHANGED <<putActive, putChunkPos, putLastData, putBuf, lastKeepAlive>>
  /\ UNCHANGED <<keepAliveCallback, nLines, nData, idle, sentPut>>

\* One turn of the loop: Serial.readBytes(buf, want) returns once `want` bytes
\* are there or, expired, once the stream's timeout ran out on fewer.
BlkRead(expired) ==
  /\ pc = "blk"
  /\ LET want == BlkWant(putSize, putReceived)
         avail == RLen(rx)
         got == Min(avail, want)
         data == RTake(rx, got)
     IN /\ expired <=> avail < want
        /\ rx' = RDrop(rx, got)
        /\ consumed' = RCat(consumed, data)
        /\ IF got <= 0
           THEN /\ BlkFinish(putReceived, putSize, handles)
                /\ UNCHANGED <<fs, wlog, putReceived>>
           ELSE \E w \in WriteOutcomes(got) :
                  /\ fs' = [fs EXCEPT ![putFile.path].data = RCat(@, RTake(data, w))]
                  /\ wlog' = Append(wlog, [req |-> got, done |-> w])
                  /\ putReceived' = putReceived + got
                  /\ IF putReceived' < putSize
                     THEN UNCHANGED <<putFile, handles, out, upload, pc>>
                     ELSE BlkFinish(putReceived', putSize, handles)
  /\ UNCHANGED <<putActive, putSize, putChunkPos, putLastData, putBuf,
                 lastKeepAlive, keepAliveCallback, cmd, lineRead, ka, prev,
                 nLines, nData, idle, sentPut, probe>>

\* the dispatcher of the blocking variant: the same chain, its own PUTFILE
handleFileManagerBlocking ==
  /\ pc = "idle"
  /\ rx # << >>
  /\ LET c == CmdLine
         k == Keyword(CmdHead)
     IN \/ k = "" /\ IgnoreLine(c)
        \/ k = "STORAGE" /\ CmdStorage(c)
        \/ k = "LIST" /\ CmdList(c)
        \/ k = "CREATE_DIR" /\ CmdCreateDir(c)
        \/ k = "PUTFILE" /\ \E opened \in BOOLEAN : CmdPutFileBlocking(c, opened)
        \/ k = "GETSIZE" /\ CmdGetSize(c)
        \/ k = "GETDATA" /\ CmdGetData(c, FALSE)
        \/ k = "DELETE" /\ CmdDelete(c)
        \/ k = "REMOVE_DIR" /\ CmdRemoveDir(c)
        \/ k = "RENAME" /\ CmdRename(c)

\* the client of the blocking variant sends the data right behind the
\* PUTFILE line: there is no READY to wait for
ClientSendDataBlocking(n) ==
  /\ nData < MaxData
  /\ sentPut
  /\ pc = "blk" \/ RIndexOf(rx, "\n") # -1
  /\ rx' = RCat(rx, RRep(IF nData % 2 = 0 THEN "a" ELSE "b", n))
  /\ nData' = nData + 1
  /\ UNCHANGED <<out, fs, handles, pc, engine, keepAliveCallback, cmd,
                 lineRead, history, ka, nLines, idle, sentPut, probe>>

NextBlk ==
  \/ \E l \in BlkWire : ClientSendLine(l)
  \/ \E n \in BlkArrivals : ClientSendDataBlocking(n)
  \/ handleFileManagerBlocking
  \/ \E x \in BOOLEAN : BlkRead(x)

SpecBlk == Init /\ [][NextBlk]_vars

\* ------------------------------------------------------------------------
\* Vocabulary of the properties
\* ------------------------------------------------------------------------
Texts(o) == [i \in 1..Len(o) |-> o[i].t]
CountOf(t) == Cardinality({i \in 1..Len(out) : out[i].t = t})
Repeat(t, k) == [i \in 1..k |-> t]
CeilDiv(a, b) == (a + b - 1) \div b

\* the response being printed is that of a PUTFILE whose destination opened
UploadResponse == cmd = "PUTFILE" /\ upload # "none"

\* a step taken by one pass of the receive loop
PassStep == putActive /\ nLines' = nLines /\ nData' = nData

\* a step in which handleFileManager reads a command line
DispatchStep == ~putActive /\ nLines' = nLines /\ nData' = nData /\ rx' # rx

\* the file the uploads of this client go to
UploadedData == IF IsFile(fs, PathF) THEN fs[PathF].data ELSE << >>

\* ------------------------------------------------------------------------
\* C1
\* ------------------------------------------------------------------------
\* C1, as stated: an upload whose S declared bytes were all delivered has
\* printed READY, then exactly ceil(S/C) - 1 NEXT lines, then exactly one OK.
C1_AsStated ==
  (UploadResponse /\ RLen(consumed) = putSize /\ (pc = "idle" \/ putSize > 0)) =>
    /\ CountOf("NEXT") = CeilDiv(putSize, PUT_CHUNK) - 1
    /\ CountOf("OK") = 1
    /\ Texts(out) = << "READY" >> \o Repeat("NEXT", CountOf("NEXT")) \o << "OK", "DONE" >>

\* C1, amended: an upload whose S declared bytes were all delivered has
\* printed READY, then exactly max(ceil(S/C) - 1, 0) NEXT lines (ceil(S/C) - 1
\* for S >= 1, none for S = 0), then exactly one OK; and for S >= 1 the
\* delivery of the last byte is what ends it.
C1_NextCount ==
  (UploadResponse /\ RLen(consumed) = putSize /\ (pc = "idle" \/ putSize > 0)) =>
    /\ CountOf("NEXT") = Max(CeilDiv(putSize, PUT_CHUNK) - 1, 0)
    /\ CountOf("OK") = 1
    /\ Texts(out) = << "READY" >> \o Repeat("NEXT", CountOf("NEXT")) \o << "OK", "DONE" >>

\* an upload of two chunks, all delivered: one NEXT, then OK
C1_Witness ==
  /\ UploadResponse /\ pc = "idle"
  /\ putSize = 2 * PUT_CHUNK /\ RLen(consumed) = putSize
  /\ CountOf("NEXT") = 1 /\ CountOf("OK") = 1

\* ------------------------------------------------------------------------
\* C2
\* ------------------------------------------------------------------------
RECURSIVE OutBytes(_)
OutBytes(o) == IF o = << >> THEN << >> ELSE RCat(Head(o).raw, OutBytes(Tail(o)))

\* C2: a GETDATA of the path that the PUTFILE before it uploaded with OK
\* emits exactly S bytes, the very bytes the client sent after READY.
C2_RoundTrip ==
  (cmd = "GETDATA" /\ prev.cmd = "PUTFILE" /\ prev.upload = "ok") =>
    /\ RLen(OutBytes(out)) = putSize
    /\ OutBytes(out) = consumed
    /\ \A i \in 1..Len(out) : out[i].t = ""

\* ------------------------------------------------------------------------
\* C3
\* ------------------------------------------------------------------------
\* C3: a pass of the receive loop that completes no chunk aborts the upload
\* exactly when the time since the last byte exceeds 10000 ms; the abort
\* closes the file, prints ERROR then DONE and leaves the engine idle, ready
\* to dispatch; a pass that completes a chunk never aborts.
C3_Pass ==
  PassStep =>
    LET aborted == upload' = "timeout"
    IN /\ Len(wlog') = Len(wlog) => (aborted <=> putLastData' > PUT_TIMEOUT_MS)
       /\ Len(wlog') # Len(wlog) => ~aborted
       /\ aborted =>
            /\ ~putActive' /\ pc' = "idle"
            /\ ~putFile'.open /\ handles' = 0
            /\ Texts(out') = Texts(out) \o << "ERROR", "DONE" >>
       /\ ~aborted /\ putActive' => (Len(wlog') # Len(wlog) \/ putLastData' <= PUT_TIMEOUT_MS)

C3_Timeout == [][C3_Pass]_vars

\* an upload aborted in the middle of a chunk, more than 10000 ms after its
\* last byte
C3_Witness ==
  /\ UploadResponse /\ upload = "timeout" /\ pc = "idle"
  /\ RLen(consumed) > 0 /\ putChunkPos > 0
  /\ putLastData > PUT_TIMEOUT_MS

\* ------------------------------------------------------------------------
\* C4
\* ------------------------------------------------------------------------
\* C4: an upload of S = 0 ends in the first pass with OK then DONE, reads no
\* data byte and prints no NEXT; an upload of S > 0 divisible by C hands only
\* full chunks of C bytes to storage, S / C of them when it completes.
C4_BoundarySizes ==
  UploadResponse =>
    /\ putSize = 0 /\ pc = "put" => Texts(out) = << "READY" >> /\ idle = 0
    /\ putSize = 0 /\ pc = "idle" =>
         /\ Texts(out) = << "READY", "OK", "DONE" >>
         /\ consumed = << >>
         /\ upload = "ok"
    /\ putSize > 0 /\ putSize % PUT_CHUNK = 0 =>
         /\ \A i \in 1..Len(wlog) : wlog[i].req = PUT_CHUNK
         /\ upload = "ok" => Len(wlog) = putSize \div PUT_CHUNK

\* an upload of S = 0 that has ended with OK while data was waiting in Serial
C4_Witness ==
  /\ UploadResponse /\ putSize = 0 /\ upload = "ok"
  /\ rx # << >> /\ consumed = << >>

\* ------------------------------------------------------------------------
\* C5
\* ------------------------------------------------------------------------
\* C5: the response of a PUTFILE whose destination opened is READY 4096, then
\* NEXT lines only, then, when it has ended, one OK or ERROR and one DONE;
\* and when a NEXT is printed the chunk it acknowledges is in the file: the
\* file holds C bytes for every NEXT.
C5_ResponseOrder ==
  UploadResponse =>
    LET n == CountOf("NEXT")
    IN /\ out[1].t = "READY" /\ out[1].n = PUT_CHUNK
       /\ pc = "put" => Texts(out) = << "READY" >> \o Repeat("NEXT", n)
       /\ pc = "idle" =>
            \/ Texts(out) = << "READY" >> \o Repeat("NEXT", n) \o << "OK", "DONE" >>
            \/ Texts(out) = << "READY" >> \o Repeat("NEXT", n) \o << "ERROR", "DONE" >>
       /\ n <= Len(wlog)
       /\ RLen(UploadedData) >= n * PUT_CHUNK

\* ------------------------------------------------------------------------
\* C6
\* ------------------------------------------------------------------------
Sentinelled ==
  {"STORAGE", "LIST", "CREATE_DIR", "PUTFILE", "GETSIZE", "DELETE", "REMOVE_DIR", "RENAME"}

\* C6: when the engine is back in loop() after a recognized command other
\* than GETDATA, the response has exactly one DONE, and it is its last line;
\* the response of GETDATA has no DONE.
C6_Sentinel ==
  /\ (pc = "idle" /\ cmd \in Sentinelled) =>
       /\ CountOf("DONE") = 1
       /\ out[Len(out)].t = "DONE"
  /\ cmd = "GETDATA" => CountOf("DONE") = 0

\* LIST of a directory that does not exist: the error line, then DONE
C6_Witness ==
  /\ cmd = "LIST" /\ pc = "idle"
  /\ Texts(out) = << "ERROR: Invalid directory", "DONE" >>

\* ------------------------------------------------------------------------
\* C7
\* ------------------------------------------------------------------------
C7_Session ==
  /\ handles \in {0, 1}
  /\ putActive <=> handles = 1
  /\ putActive <=> putFile.open
  /\ putActive <=> pc = "put"
  /\ putActive <=> upload = "active"

C7_Step ==
  /\ (~putActive /\ putActive') =>
       /\ DispatchStep /\ cmd' = "PUTFILE"
       /\ putFile'.open /\ IsFile(fs', putFile'.path)
       /\ Texts(out') = << "READY" >>
  /\ (putActive /\ ~putActive') =>
       /\ PassStep
       /\ \/ upload' = "ok" /\ putReceived' >= putSize
          \/ upload' = "timeout" /\ putLastData' > PUT_TIMEOUT_MS
  /\ (DispatchStep /\ cmd' = "PUTFILE" /\ ~putActive') =>
       /\ Texts(out') = << "ERROR", "DONE" >>
       /\ pc' = "idle" /\ handles' = 0 /\ upload' = "none"

\* C7: an upload session begins only when the dispatcher reads a PUTFILE and
\* opens its destination, and ends only by completion or by the inactivity
\* timeout; a PUTFILE that starts no session answers ERROR, DONE without
\* READY and leaves the engine idle; there is never more than one session,
\* and the one open handle exists exactly while the session does.
C7_UploadActive == []C7_Session /\ [][C7_Step]_vars

\* the first command is a well-formed PUTFILE whose destination did not open
C7_Witness ==
  /\ cmd = "PUTFILE" /\ nLines = 1 /\ prev.cmd = ""
  /\ putSize = PUT_CHUNK /\ upload = "none"
  /\ Texts(out) = << "ERROR", "DONE" >>
  /\ pc = "idle" /\ handles = 0

\* ------------------------------------------------------------------------
\* C8
\* ------------------------------------------------------------------------
\* C8: every line of an upload's response was printed, every data byte read
\* and every hook invoked while isTransferActive() was true; outside an
\* upload everything was printed and invoked while it was false, and the
\* flag is set exactly while an upload is in progress.
C8_TransferActive ==
  /\ UploadResponse =>
       /\ \A i \in 1..Len(out) : out[i].act
       /\ \A e \in ka.seen : e[2]
  /\ ~UploadResponse =>
       /\ \A i \in 1..Len(out) : ~out[i].act
       /\ \A e \in ka.seen : ~e[2]
  /\ putActive <=> upload = "active"

\* an upload that has ended with OK after a NEXT, with bytes read and the
\* hook invoked on the way
C8_Witness ==
  /\ UploadResponse /\ upload = "ok"
  /\ CountOf("NEXT") >= 1
  /\ ka.seen = {<<"read", TRUE>>, <<"hook", TRUE>>}

\* ------------------------------------------------------------------------
\* C9
\* ------------------------------------------------------------------------
ErrorLines == {"ERROR", "ERROR: Invalid directory"}

\* the command read last has ended in an error
ErrorOutcome ==
  \/ upload = "timeout"
  \/ cmd = "" /\ nLines > 0
  \/ cmd = "GETDATA" /\ out = << >>
  \/ pc = "idle" /\ \E i \in 1..Len(out) : out[i].t \in ErrorLines

C9_Idle ==
  ErrorOutcome =>
    /\ pc = "idle" /\ ~putActive
    /\ ~putFile.open /\ handles = 0

C9_NextLine ==
  (ErrorOutcome /\ DispatchStep) =>
    /\ rx' = RxRest
    /\ cmd' = Keyword(CmdHead)
    /\ cmd' # "PUTFILE" => upload' = "none" /\ pc' = "idle"

\* C9: after a command has ended in an error the engine is idle, no upload
\* is in progress and no upload handle is open; the dispatcher then reads
\* the next line whole and takes the branch its keyword selects.
C9_NoFatalError == []C9_Idle /\ [][C9_NextLine]_vars

\* a GETSIZE answered after the upload before it had timed out
C9_Witness ==
  /\ prev.cmd = "PUTFILE" /\ prev.upload = "timeout"
  /\ cmd = "GETSIZE" /\ pc = "idle"
  /\ Texts(out) = << "SIZE:", "DONE" >>

\* ------------------------------------------------------------------------
\* C10
\* ------------------------------------------------------------------------
\* C10: an upload answers OK only when all S declared bytes are in the file,
\* and NEXT only when every chunk handed to storage so far is.
C10_OkMeansWritten ==
  UploadResponse =>
    /\ upload = "ok" => (RLen(UploadedData) = putSize /\ UploadedData = consumed)
    /\ \A i \in 1..Len(wlog) : wlog[i].done = wlog[i].req

\* ------------------------------------------------------------------------
\* C11
\* ------------------------------------------------------------------------
\* the positions (from 1) of the double quotes of a line, and the k-th of them
QuoteAt(l) == {i \in 1..Len(l) : l[i] = "\""}
KthOf(S, k) == CHOOSE x \in S : Cardinality({y \in S : y < x}) = k - 1

C11_Step ==
  (DispatchStep /\ cmd' = "RENAME") =>
    LET l == lineRead'
        qs == QuoteAt(l)
    IN IF Cardinality(qs) < 4
       THEN Texts(out') = << "ERROR", "DONE" >> /\ fs' = fs
       ELSE LET from == WithSlash(SubSeq(l, KthOf(qs, 1) + 1, KthOf(qs, 2) - 1))
                to == WithSlash(SubSeq(l, KthOf(qs, 3) + 1, KthOf(qs, 4) - 1))
            IN IF Exists(fs, from) /\ from # PathRoot /\ ~Exists(fs, to)
               THEN /\ Texts(out') = << "RENAMED", "DONE" >>
                    /\ DOMAIN fs' = (DOMAIN fs \ {from}) \cup {to}
                    /\ fs'[to] = fs[from]
               ELSE Texts(out') = << "ERROR", "DONE" >> /\ fs' = fs

\* C11: a RENAME line with fewer than four double quotes is answered ERROR,
\* DONE and changes nothing in storage; a line with four renames the first
\* quoted string to the second, each with a "/" put in front when it has none.
C11_Rename == [][C11_Step]_vars

\* a RENAME whose second path lacks its closing quote was answered ERROR, DONE
\* and the file is still where it was
C11_Witness ==
  /\ cmd = "RENAME" /\ lineRead = LineRenameOpen
  /\ Texts(out) = << "ERROR", "DONE" >>
  /\ IsFile(fs, PathF) /\ ~Exists(fs, PathG)

\* ------------------------------------------------------------------------
\* C12
\* ------------------------------------------------------------------------
C12_Step ==
  /\ (DispatchStep /\ cmd' = "GETDATA") =>
       LET path == getPath(lineRead', 8)
       IN /\ IF IsFile(fs, path)
             THEN /\ OutBytes(out') = fs[path].data
                  /\ \A i \in 1..Len(out') : out'[i].t = ""
             ELSE out' = << >>
          /\ fs' = fs
          /\ handles' = 0 /\ ~putFile'.open
          /\ pc' = "idle" /\ ~putActive'
  /\ (DispatchStep /\ cmd = "GETDATA") =>
       /\ rx' = RxRest
       /\ cmd' = Keyword(CmdHead)

ArgPath(l, start) ==
  LET rest == SubSeq(l, start + 1, Len(l))
      qs == QuoteAt(rest)
      sp == {i \in 1..Len(rest) : IsSpace(rest[i])}
  IN IF rest # << >> /\ rest[1] = "\""
     THEN SubSeq(rest, 2, IF Cardinality(qs) >= 2 THEN KthOf(qs, 2) - 1 ELSE Len(rest))
     ELSE IF sp = {} THEN rest ELSE SubSeq(rest, 1, KthOf(sp, 1) - 1)

\* the commands that take one path, each with the offset of its argument
PathOffset ==
  [k \in {"LIST", "CREATE_DIR", "PUTFILE", "GETSIZE", "GETDATA", "DELETE", "REMOVE_DIR"} |->
     CASE k = "LIST" -> 5
       [] k \in {"CREATE_DIR", "REMOVE_DIR"} -> 11
       [] k = "DELETE" -> 7
       [] OTHER -> 8]

\* the commands other than PUTFILE act on the path the line carries
C13_Others ==
  (DispatchStep /\ cmd' \in DOMAIN PathOffset \ {"PUTFILE"}) =>
    LET p == ArgPath(lineRead', PathOffset[cmd'])
    IN /\ cmd' = "LIST" => out' = listDir(fs, p, FALSE) \o << Done(FALSE) >>
       /\ cmd' = "CREATE_DIR" => fs' = createDir(fs, p)
       /\ cmd' = "GETSIZE" => (out'[1].t = "SIZE:" <=> IsFile(fs, p))
       /\ cmd' = "GETDATA" => (out' # << >> <=> IsFile(fs, p))
       /\ cmd' = "DELETE" => fs' = (IF IsFile(fs, p) THEN FsDel(fs, p) ELSE fs)
       /\ cmd' = "REMOVE_DIR" => fs' = removeDir(fs, p)

\* PUTFILE opens the path the line carries
C13_PutFile ==
  (DispatchStep /\ cmd' = "PUTFILE" /\ putActive') =>
    putFile'.path = ArgPath(lineRead', PathOffset["PUTFILE"])

\* C13: every command that takes a path acts on the path its line carries,
\* whether that path is written between double quotes or, free of white
\* space, without them.
C13_Unquoted == [][C13_Others /\ C13_PutFile]_vars

\* ------------------------------------------------------------------------
\* C14
\* ------------------------------------------------------------------------
C14_Step ==
  (PassStep /\ rx = << >> /\ putActive') => pc' = "idle"

\* C14: a pass of the receive loop that finds no data and leaves the upload
\* waiting hands control back to loop(): handleFileManager has returned, and
\* a later call continues the upload.
C14_NonBlocking == [][C14_Step]_vars

\* ------------------------------------------------------------------------
\* C15
\* ------------------------------------------------------------------------
HookSeen == \E e \in ka.seen : e[1] = "hook"

\* C15: in an upload with a hook registered no pass ends with 200 ms or more
\* gone by since the hook was invoked last (or since the start) without
\* invoking it, and every invocation comes 200 ms or more after the one
\* before; the hook invoked is the one registered last; with none
\* registered nothing is invoked.
C15_KeepAlive ==
  UploadResponse =>
    /\ (putActive /\ keepAliveCallback # 0) => lastKeepAlive < KEEPALIVE_MS
    /\ HookSeen => (ka.age >= KEEPALIVE_MS /\ ka.hook = keepAliveCallback)
    /\ keepAliveCallback = 0 => (~HookSeen /\ ka.hook = 0)
    /\ ~HookSeen => (ka.age = -1 /\ ka.hook = 0)

\* the second of the hooks was invoked, and the pass after it, 199 ms later,
\* did not invoke it again
C15_Witness ==
  /\ UploadResponse /\ putActive
  /\ keepAliveCallback = 2 /\ ka.hook = 2 /\ HookSeen
  /\ lastKeepAlive = KEEPALIVE_MS - 1

\* ------------------------------------------------------------------------
\* C16
\* ------------------------------------------------------------------------
\* the path the line carries from offset start on, read off the positions
\* of its double quotes
ExpectedPath(l, start) ==
  LET qs == {i \in QuoteAt(l) : i > start}
  IN IF qs = {} THEN SubSeq(l, start + 1, Len(l))
     ELSE LET q1 == KthOf(qs, 1)
              later == {i \in qs : i > q1}
              q2 == IF later = {} THEN Len(l) + 1 ELSE KthOf(later, 1)
          IN SubSeq(l, q1 + 1, q2 - 1)

\* C16: the path parser returns the text strictly between the first double
\* quote at or after the offset and the next one, or up to the end of the
\* line when no quote closes it; without a quote at or after the offset it
\* returns the rest of the line from the offset.
C16_PathParser == probe.done => probe.path = ExpectedPath(probe.line, probe.start)

\* a line parsed from an offset after which one quote opens a path that no
\* quote closes: the path runs to the end of the line
C16_Witness ==
  /\ probe.done /\ probe.start > 0
  /\ Cardinality({i \in QuoteAt(probe.line) : i > probe.start}) = 1
  /\ probe.path # << >>
  /\ probe.path = SubSeq(probe.line, Len(probe.line) - Len(probe.path) + 1, Len(probe.line))

\* ------------------------------------------------------------------------
\* C17
\* ------------------------------------------------------------------------
\* C17, as stated: a command line sent in the middle of an upload is never
\* executed.  Under SpecEdge the client sends the line STORAGE only while an
\* upload is active, so the dispatcher never takes the STORAGE branch.
C17_AsStated == cmd # "STORAGE"

C17_Step ==
  /\ (cmd' # cmd \/ lineRead' # lineRead \/ prev' # prev) => ~putActive
  /\ PassStep =>
       LET got == RLen(rx) - RLen(rx')
           taken == RTake(rx, got)
       IN /\ got >= 0 /\ rx' = RDrop(rx, got)
          /\ consumed' = RCat(consumed, taken)
          /\ (got > 0 /\ got <= PUT_CHUNK - putChunkPos) =>
               RTake(RDrop(putBuf', putChunkPos), got) = taken
          /\ \A i \in 1..Len(out') : out'[i].t \in {"READY", "NEXT", "OK", "ERROR", "DONE"}
          /\ DOMAIN fs' = DOMAIN fs
          /\ \A q \in DOMAIN fs : q # putFile.path => fs'[q] = fs[q]

\* C17, amended: while an upload is active no command is dispatched; every
\* byte a pass takes from the transport is upload data, stored in the chunk
\* buffer, and storage changes only in the file being uploaded.
C17_NoDispatch == [][C17_Step]_vars

\* the bytes of a command line sent during an upload, its line feed
\* included, were consumed as data of that upload
C17_Witness ==
  /\ UploadResponse /\ cmd = "PUTFILE"
  /\ RIndexOf(consumed, "\n") # -1
  /\ RIndexOf(consumed, "S") # -1

\* ------------------------------------------------------------------------
\* C18
\* ------------------------------------------------------------------------
C18_Step ==
  PassStep =>
    LET got == RLen(rx) - RLen(rx')
        room == PUT_CHUNK - putChunkPos
        left == putSize - putReceived - putChunkPos
    IN /\ got >= 0 /\ rx' = RDrop(rx, got)
       /\ got <= Max(Min(RLen(rx), Min(room, left)), 0)
       /\ rx = << >> =>
            /\ consumed' = consumed
            /\ putLastData' <= PUT_TIMEOUT_MS => ~(\E i \in 1..Len(out') : out'[i].t = "ERROR")

\* (an upload of a negative S has no byte to consume)
C18_Total == UploadResponse => RLen(consumed) <= Max(putSize, 0)

\* C18: a pass takes from the transport no more than what is there, what
\* the chunk has room for and what the transfer still lacks, and what it
\* does not take stays there; a pass that finds nothing takes nothing and
\* reports no error; an upload never consumes more than its S bytes.
C18_ReadBounds == []C18_Total /\ [][C18_Step]_vars

\* ------------------------------------------------------------------------
\* C19
\* ------------------------------------------------------------------------
C19_Step ==
  (PassStep /\ putSize >= 0) =>
    LET got == RLen(rx) - RLen(rx')
        want == Min(PUT_CHUNK, putSize - putReceived)
    IN IF Len(wlog') # Len(wlog)
       THEN /\ Len(wlog') = Len(wlog) + 1
            /\ putChunkPos + got = want
            /\ wlog'[Len(wlog')].req = want
            /\ putReceived' = putReceived + want
            /\ putChunkPos' = 0
       ELSE /\ putReceived' = putReceived
            /\ putChunkPos' = putChunkPos + got
            /\ putChunkPos' < want

C19_Counters ==
  (UploadResponse /\ putSize >= 0) =>
    /\ putReceived = RLen(UploadedData)
    /\ putReceived % PUT_CHUNK = 0 \/ putReceived = putSize
    /\ putReceived + putChunkPos <= putSize

\* C19: in an upload of S >= 0 a chunk is written once, when it is complete,
\* as one write of min(C, S - received) bytes, after which received has
\* grown by that amount and the chunk position is 0; received is the number
\* of bytes in the file, is a multiple of C unless it is S, and received
\* plus the chunk position never exceeds S.
C19_Accounting == []C19_Counters /\ [][C19_Step]_vars

\* ------------------------------------------------------------------------
\* C20
\* ------------------------------------------------------------------------
\* the length the next pass asks Serial.readBytes for
ReadRequest == ToRead(RLen(rx), ChunkWant(putSize - putReceived), putChunkPos)

C20_State ==
  /\ putChunkPos \in 0..PUT_CHUNK
  /\ (putActive /\ pc = "put" /\ rx # << >>) => ReadRequest \in 0..(PUT_CHUNK - putChunkPos)
  /\ \A i \in 1..Len(wlog) : wlog[i].req \in 0..PUT_CHUNK
  /\ pc # "crashed"

C20_Step == PassStep => putChunkPos + (RLen(rx) - RLen(rx')) <= PUT_CHUNK

\* C20: whatever size the PUTFILE line carries and however the bytes arrive,
\* the chunk position stays within 0..4096, every read is asked for a
\* length from 0 to the room left in the chunk buffer, and no byte is
\* stored past its end.
C20_InBounds == []C20_State /\ [][C20_Step]_vars

\* ------------------------------------------------------------------------
\* C21
\* ------------------------------------------------------------------------
\* C21: after an upload was aborted by the inactivity timeout the file is
\* closed and holds exactly the bytes of the chunks completed before, in the
\* order sent: a multiple of C, fewer than S; the bytes buffered for the
\* chunk that was not completed are in no write and not in the file.
C21_Truncated ==
  (UploadResponse /\ upload = "timeout") =>
    /\ ~putFile.open /\ handles = 0
    /\ putReceived % PUT_CHUNK = 0 /\ putReceived < putSize
    /\ RLen(consumed) = putReceived + putChunkPos
    /\ UploadedData = RTake(consumed, putReceived)
    /\ \A i \in 1..Len(wlog) : wlog[i].req = PUT_CHUNK

\* ------------------------------------------------------------------------
\* C22
\* ------------------------------------------------------------------------
\* what the writes w put into the file, out of the bytes c the upload read
RECURSIVE Written(_, _)
Written(w, c) ==
  IF w = << >> THEN << >>
  ELSE RCat(RTake(c, Head(w).done), Written(Tail(w), RDrop(c, Head(w).req)))

\* the step in which a PUTFILE opens its destination
C22_Start ==
  (DispatchStep /\ upload' = "active") =>
    /\ putReceived' = 0 /\ putChunkPos' = 0
    /\ putLastData' = 0 /\ lastKeepAlive' = 0
    /\ putFile'.open /\ fs'[putFile'.path].data = << >>
    /\ Texts(out') = << "READY" >>

\* what an upload has printed and stored follows from its declared size and
\* from the bytes it read itself
C22_Own ==
  UploadResponse =>
    /\ RLen(consumed) = putReceived + putChunkPos
    /\ putReceived = Min(Len(wlog) * PUT_CHUNK, putSize)
    /\ \A i \in 1..Len(wlog) :
         wlog[i].req = Min(PUT_CHUNK, putSize - (i - 1) * PUT_CHUNK)
    /\ CountOf("NEXT") = (IF upload = "ok" THEN Len(wlog) - 1 ELSE Len(wlog))
    /\ Texts(out) = << "READY" >> \o Repeat("NEXT", CountOf("NEXT"))
                      \o (IF upload = "ok" THEN << "OK", "DONE" >>
                          ELSE IF upload = "timeout" THEN << "ERROR", "DONE" >>
                          ELSE << >>)
    /\ UploadedData = Written(wlog, consumed)

\* C22: every upload that starts begins with received = 0, chunk position 0
\* and fresh reference times for the timeout and the keep-alive, however
\* the upload before it ended; its acknowledgments and the content of its
\* file follow from its own declared size and data alone.
C22_NoResidue == []C22_Own /\ [][C22_Start]_vars

\* an upload that ended with OK and took the second arrival only, after an
\* upload that took the first arrival and timed out
C22_Witness ==
  /\ UploadResponse /\ upload = "ok"
  /\ prev.cmd = "PUTFILE" /\ prev.upload = "timeout"
  /\ consumed # << >> /\ consumed[1].b = "b"
  /\ UploadedData = consumed

\* ------------------------------------------------------------------------
\* C23
\* ------------------------------------------------------------------------
\* a step taken by the read loop of the blocking PUTFILE
BlkStep == pc = "blk" /\ nLines' = nLines /\ nData' = nData

\* the loop goes on while bytes come and the size is not reached, and ends
\* with the file closed and the verdict printed
C23_Step ==
  BlkStep =>
    /\ pc' = "idle" <=> (putReceived' >= putSize \/ rx' = rx)
    /\ pc' = "idle" =>
         /\ ~putFile'.open /\ handles' = 0
         /\ Texts(out') = << (IF putReceived' = putSize THEN "OK" ELSE "ERROR"), "DONE" >>

\* what a finished blocking upload leaves
C23_State ==
  (cmd = "PUTFILE" /\ upload \in {"ok", "mismatch"}) =>
    /\ ~putFile.open /\ handles = 0
    /\ Texts(out) = << (IF putReceived = putSize THEN "OK" ELSE "ERROR"), "DONE" >>
    /\ RLen(consumed) = putReceived
    /\ UploadedData = consumed

\* C23: the blocking PUTFILE, once its destination is open, reads until the
\* declared size is received or a timed read returns nothing, always closes
\* the file, prints OK exactly when the bytes received equal the declared
\* size and ERROR otherwise, then DONE; the file holds exactly the bytes
\* received.
C23_Blocking == []C23_State /\ [][C23_Step]_vars

\* ------------------------------------------------------------------------
\* C24
\* ------------------------------------------------------------------------
\* the PUTFILE lines that carry no size argument after the path
NoSizeLines == {LinePutNoSize, LinePutBareNoSize, LinePutSpacedNoSize}

C24_Step ==
  (DispatchStep /\ cmd' = "PUTFILE" /\ lineRead' \in NoSizeLines) =>
    /\ Texts(out') = << "ERROR", "DONE" >>
    /\ fs' = fs
    /\ handles' = handles /\ ~putFile'.open
    /\ ~putActive' /\ pc' = "idle" /\ upload' = "none"

\* C24: a PUTFILE line without a size argument after the path, quoted or
\* not, with or without blanks inside the quoted path, is answered with
\* ERROR then DONE before the destination is opened: no file is created or
\* truncated and no upload starts.
C24_NoSize == [][C24_Step]_vars

====
